---- MODULE Spec2Model ----
(***************************************************************************)
(* ScholarFlow: the multi-credential request dispatcher.                   *)
(*                                                                         *)
(*   ApiKeyManager  (services/ApiKeyManager.ts, src/unnamed/part_003)      *)
(*   GeminiService.executeWithRetry  (src/services/geminiService.ts)       *)
(*                                                                         *)
(* JavaScript runs each synchronous segment to completion, so one action   *)
(* is one synchronous segment: the code between two awaits.  The calendar  *)
(* date read by `new Date()` is the variable today; it is advanced by the  *)
(* environment between segments.  Timestamps (Date.now()) are kept at the  *)
(* granularity of that date.                                               *)
(*                                                                         *)
(*   Spec          sequential executeWithRetry calls on one service        *)
(*   SpecClassify  the catch block over every shape of upstream failure    *)
(*   SpecPool      the public methods of ApiKeyManager called directly     *)
(***************************************************************************)
EXTENDS Integers, FiniteSets, Sequences, TLC

\* ------------------------------------------------------------------ bounds
MaxKeys     == 3    \* largest pool built by the constructor
MaxAttempts == 3    \* largest maxRetries argument passed to executeWithRetry
MaxDay      == 1    \* number of date changes the environment makes
MaxSubs     == 2    \* subscribe() calls made on one manager
MaxItems    == 3    \* longest references list given to analyzeReferences
MaxCount    == 2    \* cap on requestCount: successes per key and day

\* --------------------------------------------------------------- constants
NoDay == -1         \* lastUsed of a key that was never used (undefined)

DefaultRetries == 3 \* executeWithRetry(operation, maxRetries = 3)

\* errorMessage values stored on a key
\* a message is the text it stands for, the markers the dispatcher searches
\* for that occur in it, and its length in characters
NoMessage        == [text |-> "undefined", marks |-> {}, len |-> 0]
ExhaustedMessage == [text |-> "quota used up today", marks |-> {}, len |-> 7]        \* '今日流量已用完'
InvalidMessage   == [text |-> "invalid key or no model", marks |-> {}, len |-> 21]   \* 'API key 無效或 model 不存在'
\* a diagnostic as the dispatcher passes it: errorMessage.substring(0, 50)
UpstreamMessage  == [text |-> "upstream", marks |-> {}, len |-> 50]
\* a diagnostic as another caller of markError may pass it
LongMessage      == [text |-> "upstream", marks |-> {}, len |-> 60]

\* errorMessage.substring(0, 50): the length kept by the dispatcher
TruncateAt == 50

Min(a, b) == IF a < b THEN a ELSE b

StatusSet == {"available", "active", "exhausted", "error"}

\* ------------------------------------------------------- upstream failures
\* A failure thrown by the operation: error.status, error.response.status
\* (0 stands for an absent, hence falsy, field), whether error.message is a
\* non-empty string, and which of the markers the code searches for occur in
\* that message, and the length of the message text.
Markers  == {"429", "RESOURCE_EXHAUSTED", "404", "NOT_FOUND"}
NoError  == [status |-> 0, respStatus |-> 0, hasMessage |-> FALSE, marks |-> {"none"},
             len |-> 0]

\* every failure shape; error.response.status is read only when error.status
\* is falsy or when the error is stringified, so it is left absent otherwise
AllErrors == { e \in [status : {0, 429, 404, 500}, respStatus : {0, 429, 404},
                      hasMessage : BOOLEAN, marks : SUBSET Markers, len : {20}] :
                  /\ (~e.hasMessage) => e.marks = {}
                  /\ (e.hasMessage /\ e.status # 0) => e.respStatus = 0 }

\* the failures the operation raises in the dispatcher runs: one or two of
\* each kind the catch block tells apart
ErrorSet ==
    { [status |-> 429, respStatus |-> 0,   hasMessage |-> TRUE,  marks |-> {}, len |-> 20],
      [status |-> 0,   respStatus |-> 0,   hasMessage |-> TRUE,  marks |-> {"RESOURCE_EXHAUSTED"}, len |-> 20],
      [status |-> 404, respStatus |-> 0,   hasMessage |-> TRUE,  marks |-> {"429"}, len |-> 20],
      [status |-> 404, respStatus |-> 0,   hasMessage |-> TRUE,  marks |-> {"NOT_FOUND"}, len |-> 20],
      [status |-> 0,   respStatus |-> 404, hasMessage |-> FALSE, marks |-> {}, len |-> 20],
      [status |-> 500, respStatus |-> 0,   hasMessage |-> TRUE,  marks |-> {}, len |-> 60],
      [status |-> 0,   respStatus |-> 0,   hasMessage |-> FALSE, marks |-> {}, len |-> 20] }

\* JSON.stringify(error): the text holds the digits of the numeric fields
JsonMarks(e) ==
    {m \in {"429", "404"} :
        \/ (m = "429" /\ (e.status = 429 \/ e.respStatus = 429))
        \/ (m = "404" /\ (e.status = 404 \/ e.respStatus = 404))}

\* const errorMessage = error?.message || JSON.stringify(error)
errorMessageOf(e) ==
    [text |-> "upstream",
     marks |-> IF e.hasMessage THEN e.marks ELSE JsonMarks(e),
     len |-> e.len]

\* const status = error?.status || error?.response?.status
statusOf(e) == IF e.status # 0 THEN e.status ELSE e.respStatus

\* errorMessage.includes(marker)
includes(msg, marker) == marker \in msg.marks

\* msg.substring(0, to)
substring(msg, to) == [msg EXCEPT !.len = Min(@, to)]

IsRateLimitError(e) ==
    \/ statusOf(e) = 429
    \/ includes(errorMessageOf(e), "429")
    \/ includes(errorMessageOf(e), "RESOURCE_EXHAUSTED")

IsNotFoundError(e) ==
    \/ statusOf(e) = 404
    \/ includes(errorMessageOf(e), "404")
    \/ includes(errorMessageOf(e), "NOT_FOUND")

\* mutant: the 404 test comes first
Classify_NotFoundFirst(e) ==
    IF IsNotFoundError(e) THEN "NotFound"
    ELSE IF IsRateLimitError(e) THEN "RateLimited"
    ELSE "Other"

\* the if / else if / else chain of the catch block
Classify(e) ==
    IF IsRateLimitError(e) THEN "RateLimited"
    ELSE IF IsNotFoundError(e) THEN "NotFound"
    ELSE "Other"

\* ------------------------------------------------------------------- state
VARIABLES
    keys,          \* ApiKeyManager.keys: index 0..N-1 -> ApiKeyStatus record
    currentIndex,  \* ApiKeyManager.currentIndex
    today,         \* new Date().toISOString().split('T')[0]
    pc,            \* position of executeWithRetry
    attempts,      \* executeWithRetry: let attempts
    maxRetries,    \* executeWithRetry: parameter maxRetries
    currentKey,    \* executeWithRetry: const currentKey (0 = none yet)
    caught,        \* the error bound by catch (error)
    outcome,       \* how the last executeWithRetry call ended
    invocations,   \* number of operation(genAI) calls made by the current call
    selStatus,     \* status of keys[currentIndex] just before markAsActive
    altAvailable,  \* whether another key was available at that moment
    onlyRateLimit, \* the call began with every key available on the current
                   \* day and has seen only rate-limit failures since
    lastCall,      \* the last ApiKeyManager method a client called directly,
                   \* with the value it returned
    listeners,     \* ApiKeyManager.listeners: the callbacks in subscription
                   \* order, each tagged with the subscribe call that added it
    handles,       \* the unsubscribe closures returned so far: handle h
                   \* captured the callback handles[h]
    delivered,     \* the listener calls made by the last synchronous segment
                   \* that called the manager, in order
    snapshot,      \* the array a client got from getKeyStatuses(): references
                   \* to key records, or values the client put there itself
    successes,     \* per key: operation(genAI) calls that resolved with this
                   \* key since the key was last reset
    lastReadDay,   \* the date at the constructor or the last read method
    streak,        \* SpecExhaust: markExhaustedAndRotate calls made in succession
                   \* since the pool was all available (-1: no such succession)
    falseAt,       \* SpecExhaust: which call of the succession first returned
                   \* false (0: none yet)
    calls,         \* SpecConcurrent: per caller of a public operation, where
                   \* its executeWithRetry stands and its locals
    batch,         \* SpecBatch: the locals of analyzeReferences and what it
                   \* returned
    bcast          \* SpecReentrant: the forEach of a notify() in progress

vars == <<keys, currentIndex, today, pc, attempts, maxRetries, currentKey,
          caught, outcome, invocations, selStatus, altAvailable, onlyRateLimit,
          lastCall, listeners, handles, delivered, snapshot, successes,
          lastReadDay, streak, falseAt, calls, batch, bcast>>

\* what the dispatcher and the plain pool calls never touch
watchVars == <<listeners, handles, snapshot, streak, falseAt>>
extVars == <<calls, batch, bcast>>
obsVars == <<watchVars, extVars>>

poolVars == <<keys, currentIndex>>
callVars == <<pc, attempts, maxRetries, currentKey, caught, outcome,
              invocations, selStatus, altAvailable, onlyRateLimit>>

N == Cardinality(DOMAIN keys)

\* ------------------------------------------------------------ ApiKeyManager
\* constructor(apiKeys)
NewKeys(n, d) ==
    [i \in 0..(n - 1) |->
        [key |-> i + 1, status |-> "available", requestCount |-> 0,
         lastUsed |-> NoDay, lastResetDate |-> d, errorMessage |-> NoMessage]]

\* mutant: every read resets every key, stale or not
checkDailyReset_Always(ks, d) ==
    [i \in DOMAIN ks |->
        [ks[i] EXCEPT !.status = "available", !.requestCount = 0,
                      !.lastResetDate = d, !.errorMessage = NoMessage]]

\* mutant: the reset leaves the old error message on the key
checkDailyReset_KeepError(ks, d) ==
    [i \in DOMAIN ks |->
        IF ks[i].lastResetDate # d
        THEN [ks[i] EXCEPT !.status = "available", !.requestCount = 0,
                           !.lastResetDate = d]
        ELSE ks[i]]

\* checkDailyReset(): keys.forEach(k => { if (k.lastResetDate !== today) {...} })
checkDailyReset(ks, d) ==
    [i \in DOMAIN ks |->
        IF ks[i].lastResetDate # d
        THEN [ks[i] EXCEPT !.status = "available", !.requestCount = 0,
                           !.lastResetDate = d, !.errorMessage = NoMessage]
        ELSE ks[i]]

\* mutant: the request is counted when the attempt starts
markAsActive_Count(ks, ci, d) ==
    [ks EXCEPT ![ci].status = "active", ![ci].lastUsed = d,
               ![ci].requestCount = @ + 1]

markAsActive(ks, ci, d) ==
    [ks EXCEPT ![ci].status = "active", ![ci].lastUsed = d]

\* mutant: the success is not counted
markSuccess_NoCount(ks, ci, d) ==
    [ks EXCEPT ![ci].status = "available", ![ci].lastUsed = d]

markSuccess(ks, ci, d) ==
    [ks EXCEPT ![ci].status = "available",
               ![ci].requestCount = @ + 1,
               ![ci].lastUsed = d]

\* the key test of the rotation scan
Selectable(k) == k.status = "available"

\* mutant: the cursor is advanced without the modulo
RECURSIVE RotateScan_NoWrap(_, _, _)
RotateScan_NoWrap(ks, ci, n) ==
    IF n < Cardinality(DOMAIN ks)
    THEN LET next == ci + 1
         IN  IF next \in DOMAIN ks /\ Selectable(ks[next])
             THEN [switched |-> TRUE, currentIndex |-> next]
             ELSE RotateScan_NoWrap(ks, next, n + 1)
    ELSE [switched |-> FALSE, currentIndex |-> ci]

\* mutant: the scan stops one step short of a full pass
RECURSIVE RotateScan_Short(_, _, _)
RotateScan_Short(ks, ci, n) ==
    IF n < Cardinality(DOMAIN ks) - 1
    THEN LET next == (ci + 1) % Cardinality(DOMAIN ks)
         IN  IF Selectable(ks[next])
             THEN [switched |-> TRUE, currentIndex |-> next]
             ELSE RotateScan_Short(ks, next, n + 1)
    ELSE [switched |-> FALSE, currentIndex |-> ci]

\* while (attempts < this.keys.length) { currentIndex = (currentIndex+1) % length; ... }
RECURSIVE RotateScan(_, _, _)
RotateScan(ks, ci, n) ==
    IF n < Cardinality(DOMAIN ks)
    THEN LET next == (ci + 1) % Cardinality(DOMAIN ks)
         IN  IF Selectable(ks[next])
             THEN [switched |-> TRUE, currentIndex |-> next]
             ELSE RotateScan(ks, next, n + 1)
    ELSE [switched |-> FALSE, currentIndex |-> ci]

\* the value of the scan's own counter (let attempts = 0; attempts++) when
\* the while loop of markExhaustedAndRotate is left
RECURSIVE RotateSteps(_, _, _)
RotateSteps(ks, ci, n) ==
    IF n < Cardinality(DOMAIN ks)
    THEN LET next == (ci + 1) % Cardinality(DOMAIN ks)
         IN  IF Selectable(ks[next])
             THEN n + 1
             ELSE RotateSteps(ks, next, n + 1)
    ELSE n

\* mutant: the cursor moves on but the key it leaves is not marked
markExhaustedAndRotate_NoMark(ks, ci) ==
    LET scan == RotateScan(ks, ci, 0)
    IN  [keys |-> ks, currentIndex |-> scan.currentIndex,
         switched |-> scan.switched]

\* mutant: the rotation reports success but the cursor is put back
markExhaustedAndRotate_NoMove(ks, ci) ==
    LET marked == [ks EXCEPT ![ci].status = "exhausted",
                             ![ci].errorMessage = ExhaustedMessage]
        scan   == RotateScan(marked, ci, 0)
    IN  [keys |-> marked, currentIndex |-> ci, switched |-> scan.switched]

markExhaustedAndRotate(ks, ci) ==
    LET marked == [ks EXCEPT ![ci].status = "exhausted",
                             ![ci].errorMessage = ExhaustedMessage]
        scan   == RotateScan(marked, ci, 0)
    IN  [keys |-> marked, currentIndex |-> scan.currentIndex,
         switched |-> scan.switched]

\* mutant: the error is written on every key
markError_All(ks, ci, msg) ==
    [i \in DOMAIN ks |-> [ks[i] EXCEPT !.status = "error", !.errorMessage = msg]]

markError(ks, ci, msg) ==
    [ks EXCEPT ![ci].status = "error", ![ci].errorMessage = msg]

\* mutant: every key that is not exhausted counts as usable
hasAvailableKey_NotExhausted(ks) == \E i \in DOMAIN ks : ks[i].status # "exhausted"

\* hasAvailableKey, after its checkDailyReset: this.keys.some(k => k.status === 'available')
hasAvailableKey(ks) == \E i \in DOMAIN ks : ks[i].status = "available"

\* mutant: the last subscriber is left out
notify_SkipLast(ls, ks, ci) ==
    [j \in 1..(Len(ls) - 1) |->
        [reg |-> ls[j].reg, cb |-> ls[j].cb, keys |-> ks, index |-> ci]]

\* notify(): this.listeners.forEach(listener => listener([...this.keys])).
\* One call per listener, in order; each gets the records as they are now
\* and would read index from getCurrentIndex().
notify(ls, ks, ci) ==
    [j \in 1..Len(ls) |->
        [reg |-> ls[j].reg, cb |-> ls[j].cb, keys |-> ks, index |-> ci]]

\* the notify() calls of markExhaustedAndRotate: one after the mark, with the
\* cursor still on the old key, and one more when the scan finds a key
rotateNotifications(ls, ks, ci) ==
    LET marked == [ks EXCEPT ![ci].status = "exhausted",
                             ![ci].errorMessage = ExhaustedMessage]
        scan   == RotateScan(marked, ci, 0)
    IN  notify(ls, marked, ci) \o
        (IF scan.switched THEN notify(ls, marked, scan.currentIndex) ELSE <<>>)

\* the requestCount bookkeeping of checkDailyReset, applied to the tally
resetTally(tally, ks, d) ==
    [i \in DOMAIN ks |-> IF ks[i].lastResetDate # d THEN 0 ELSE tally[i]]

\* the key record whose value was handed to the operation
KeyIndex(ks, value) == CHOOSE i \in DOMAIN ks : ks[i].key = value

\* the callers of SpecConcurrent, and a caller outside executeWithRetry
Callers == {1, 2}
IdleCall == [pc |-> "idle", attempts |-> 0, usedKey |-> 0, outcome |-> "none"]

\* analyzeReferences before it is called
NoReturn  == [kind |-> "none", items |-> <<>>]
IdleBatch == [pc |-> "idle", n |-> 0, i |-> 0, results |-> <<>>, delays |-> 0,
              returned |-> NoReturn]

\* no notify() is running
NoBroadcast == [running |-> FALSE, array |-> <<>>, pos |-> 0, revoked |-> {},
                late |-> {}]

\* ------------------------------------------------------------------- Init
Init ==
    /\ today = 0
    /\ \E n \in 1..MaxKeys : keys = NewKeys(n, 0)
    /\ currentIndex = 0
    /\ pc = "idle"
    /\ attempts = 0
    /\ maxRetries = 0
    /\ currentKey = 0
    /\ caught = NoError
    /\ outcome = "none"
    /\ invocations = 0
    /\ selStatus = "none"
    /\ altAvailable = FALSE
    /\ onlyRateLimit = FALSE
    /\ lastCall = [op |-> "constructor", ret |-> "void"]
    /\ listeners = <<>>
    /\ handles = <<>>
    /\ delivered = <<>>
    /\ snapshot = <<>>
    /\ successes = [i \in DOMAIN keys |-> 0]
    /\ lastReadDay = 0
    /\ streak = 0
    /\ falseAt = 0
    /\ calls = [c \in Callers |-> IdleCall]
    /\ batch = IdleBatch
    /\ bcast = NoBroadcast

\* --------------------------------------------------------- executeWithRetry
\* mutant: one iteration too many
LoopCondition_OffByOne(a, m) == a <= m

\* while (attempts < maxRetries)
LoopCondition(a, m) == a < m

\* a caller starts executeWithRetry(operation, m): let attempts = 0
Execute(m) ==
    /\ pc \in {"idle", "done"}
    /\ pc' = "loop"
    /\ attempts' = 0
    /\ maxRetries' = m
    /\ currentKey' = 0
    /\ caught' = NoError
    /\ outcome' = "none"
    /\ invocations' = 0
    /\ selStatus' = "none"
    /\ altAvailable' = FALSE
    /\ onlyRateLimit' =
          \A i \in DOMAIN keys : checkDailyReset(keys, today)[i].status = "available"
    /\ UNCHANGED <<keys, currentIndex, today, lastCall, delivered, successes,
                   lastReadDay>>
    /\ UNCHANGED obsVars

\* one pass through the loop head up to the await of operation(genAI)
LoopHead ==
    /\ pc = "loop"
    /\ IF ~LoopCondition(attempts, maxRetries)
       THEN \* throw new Error("請求失敗次數過多。")
            /\ pc' = "done"
            /\ outcome' = "RetriesExceeded"
            /\ UNCHANGED <<keys, currentKey, invocations, selStatus, altAvailable,
                           delivered, successes, lastReadDay>>
       ELSE LET reset == checkDailyReset(keys, today)      \* hasAvailableKey
            IN  IF ~hasAvailableKey(reset)
                THEN /\ keys' = reset
                     /\ pc' = "done"
                     /\ outcome' = "ExhaustedBeforeAttempt"
                     /\ delivered' = <<>>
                     /\ successes' = resetTally(successes, keys, today)
                     /\ lastReadDay' = today
                     /\ UNCHANGED <<currentKey, invocations, selStatus, altAvailable>>
                ELSE LET active == markAsActive(reset, currentIndex, today)
                         read   == checkDailyReset(active, today)  \* getCurrentKey
                     IN  /\ keys' = read
                         /\ currentKey' = read[currentIndex].key
                         /\ selStatus' = reset[currentIndex].status
                         /\ altAvailable' =
                               \E i \in DOMAIN reset :
                                   i # currentIndex /\ reset[i].status = "available"
                         /\ invocations' = invocations + 1
                         /\ pc' = "await"
                         /\ outcome' = outcome
                         /\ delivered' = notify(listeners, active, currentIndex)
                         /\ successes' = resetTally(successes, keys, today)
                         /\ lastReadDay' = today
    /\ UNCHANGED <<currentIndex, today, attempts, maxRetries, caught, onlyRateLimit,
                   lastCall>>
    /\ UNCHANGED obsVars

\* operation(genAI) resolves: markSuccess(); return result
OperationSucceeds ==
    /\ pc = "await"
    /\ keys[currentIndex].requestCount < MaxCount
    /\ keys' = markSuccess(keys, currentIndex, today)
    /\ pc' = "done"
    /\ outcome' = "result"
    /\ onlyRateLimit' = FALSE
    /\ delivered' = notify(listeners, keys', currentIndex)
    /\ successes' = [successes EXCEPT ![KeyIndex(keys, currentKey)] = @ + 1]
    /\ UNCHANGED <<currentIndex, today, attempts, maxRetries, currentKey, caught,
                   invocations, selStatus, altAvailable, lastCall, lastReadDay>>
    /\ UNCHANGED obsVars

\* operation(genAI) rejects with e: control enters catch (error)
OperationFails(e) ==
    /\ pc = "await"
    /\ pc' = "caught"
    /\ caught' = e
    /\ UNCHANGED <<keys, currentIndex, today, attempts, maxRetries, currentKey,
                   outcome, invocations, selStatus, altAvailable, onlyRateLimit,
                   lastCall, delivered, successes, lastReadDay>>
    /\ UNCHANGED obsVars

\* mutant: the result of the rotation is ignored
RateLimitBranch_NoThrow ==
    LET r == markExhaustedAndRotate(keys, currentIndex)
    IN  /\ keys' = r.keys
        /\ currentIndex' = r.currentIndex
        /\ pc' = "backoff" /\ outcome' = outcome
        /\ delivered' = rotateNotifications(listeners, keys, currentIndex)
        /\ UNCHANGED onlyRateLimit

\* if (status === 429 || ...) { markExhaustedAndRotate(); if (!switched) throw; await delay(2000) }
RateLimitBranch ==
    LET r == markExhaustedAndRotate(keys, currentIndex)
    IN  /\ keys' = r.keys
        /\ currentIndex' = r.currentIndex
        /\ IF r.switched
           THEN pc' = "backoff" /\ outcome' = outcome
           ELSE pc' = "done" /\ outcome' = "ExhaustedAfterRotate"
        /\ delivered' = rotateNotifications(listeners, keys, currentIndex)
        /\ UNCHANGED onlyRateLimit

\* mutant: a 404 rotates like a rate limit before failing
NotFoundBranch_Rotate ==
    LET r == markExhaustedAndRotate(keys, currentIndex)
    IN  /\ keys' = markError(r.keys, currentIndex, InvalidMessage)
        /\ currentIndex' = r.currentIndex
        /\ pc' = "done"
        /\ outcome' = "NotFound"
        /\ onlyRateLimit' = FALSE
        /\ delivered' = notify(listeners, keys', currentIndex')

\* else if (status === 404 || ...) { markError('...'); throw new Error(...) }
NotFoundBranch ==
    /\ keys' = markError(keys, currentIndex, InvalidMessage)
    /\ pc' = "done"
    /\ outcome' = "NotFound"
    /\ onlyRateLimit' = FALSE
    /\ delivered' = notify(listeners, keys', currentIndex)
    /\ UNCHANGED currentIndex

\* mutant: the error is rethrown without marking the key
OtherBranch_NoMark ==
    /\ pc' = "done"
    /\ outcome' = "Propagated"
    /\ onlyRateLimit' = FALSE
    /\ delivered' = <<>>
    /\ UNCHANGED <<keys, currentIndex>>

\* mutant: the catch block invokes the operation again instead of rethrowing
OtherBranch_Retry ==
    /\ pc' = "await"
    /\ outcome' = outcome
    /\ onlyRateLimit' = FALSE
    /\ delivered' = <<>>
    /\ UNCHANGED <<keys, currentIndex>>

\* else { markError(errorMessage.substring(0, 50)); throw error }
OtherBranch ==
    /\ keys' = markError(keys, currentIndex,
                         substring(errorMessageOf(caught), TruncateAt))
    /\ pc' = "done"
    /\ outcome' = "Propagated"
    /\ onlyRateLimit' = FALSE
    /\ delivered' = notify(listeners, keys', currentIndex)
    /\ UNCHANGED currentIndex

\* the catch block
HandleFailure ==
    /\ pc = "caught"
    /\ CASE Classify(caught) = "RateLimited" -> RateLimitBranch
         [] Classify(caught) = "NotFound"    -> NotFoundBranch
         [] OTHER                            -> OtherBranch
    /\ caught' = NoError
    /\ UNCHANGED <<today, attempts, maxRetries, currentKey, invocations,
                   selStatus, altAvailable, lastCall, successes, lastReadDay>>
    /\ UNCHANGED obsVars

\* mutant: the attempt after a rotation is not counted
BackoffDone_NoIncrement ==
    /\ pc = "backoff"
    /\ pc' = "loop"
    /\ UNCHANGED <<keys, currentIndex, today, attempts, maxRetries, currentKey, caught,
                   outcome, invocations, selStatus, altAvailable, onlyRateLimit,
                   lastCall, delivered, successes, lastReadDay>>
    /\ UNCHANGED obsVars

\* delay(2000) elapses: attempts++ and back to the loop head
BackoffDone ==
    /\ pc = "backoff"
    /\ attempts' = attempts + 1
    /\ pc' = "loop"
    /\ UNCHANGED <<keys, currentIndex, today, maxRetries, currentKey, caught,
                   outcome, invocations, selStatus, altAvailable, onlyRateLimit,
                   lastCall, delivered, successes, lastReadDay>>
    /\ UNCHANGED obsVars

\* ------------------------------------------------------------- environment
\* midnight passes; not inside a synchronous segment
DateChange ==
    /\ today < MaxDay
    /\ pc \notin {"loop", "caught"}
    /\ today' = today + 1
    /\ onlyRateLimit' = FALSE
    /\ UNCHANGED <<keys, currentIndex, pc, attempts, maxRetries, currentKey,
                   caught, outcome, invocations, selStatus, altAvailable, lastCall,
                   delivered, successes, lastReadDay>>
    /\ UNCHANGED obsVars

\* the UI reads getKeyStatuses() / getCurrentKey() between segments
GetKeyStatuses ==
    /\ pc \notin {"loop", "caught"}
    /\ keys' = checkDailyReset(keys, today)
    /\ delivered' = <<>>
    /\ successes' = resetTally(successes, keys, today)
    /\ lastReadDay' = today
    /\ UNCHANGED <<currentIndex, today, lastCall>>
    /\ UNCHANGED callVars
    /\ UNCHANGED obsVars

Next ==
    \/ \E m \in 1..MaxAttempts : Execute(m)
    \/ LoopHead
    \/ OperationSucceeds
    \/ \E e \in ErrorSet : OperationFails(e)
    \/ HandleFailure
    \/ BackoffDone
    \/ DateChange
    \/ GetKeyStatuses

Spec == Init /\ [][Next]_vars

\* ------------------------------------------------- the catch block alone
\* The dispatcher with an operation that always fails, over every failure
\* shape: what the catch block does with each of them.
NextClassify ==
    \/ \E m \in 1..MaxAttempts : Execute(m)
    \/ LoopHead
    \/ \E e \in AllErrors : OperationFails(e)
    \/ HandleFailure
    \/ BackoffDone

SpecClassify == Init /\ [][NextClassify]_vars

\* ------------------------------------------- ApiKeyManager called directly
\* The public methods of ApiKeyManager, called in any order by a client that
\* holds the manager (GeminiService.getKeyManager()).  No executeWithRetry
\* call is running: the call variables keep their initial values.

CallGetCurrentKey ==
    /\ keys' = checkDailyReset(keys, today)
    /\ lastCall' = [op |-> "getCurrentKey", ret |-> keys'[currentIndex].key]
    /\ delivered' = <<>>
    /\ lastReadDay' = today
    /\ UNCHANGED <<currentIndex, today, successes>>
    /\ UNCHANGED callVars
    /\ UNCHANGED obsVars

\* getKeyStatuses(): [...this.keys], a new array of the same key records
CallGetKeyStatuses ==
    /\ keys' = checkDailyReset(keys, today)
    /\ lastCall' = [op |-> "getKeyStatuses", ret |-> "array"]
    /\ snapshot' = [j \in 1..N |-> [ref |-> j - 1]]
    /\ delivered' = <<>>
    /\ lastReadDay' = today
    /\ UNCHANGED <<currentIndex, today, successes>>
    /\ UNCHANGED callVars
    /\ UNCHANGED extVars
    /\ UNCHANGED <<listeners, handles, streak, falseAt>>

CallHasAvailableKey ==
    /\ keys' = checkDailyReset(keys, today)
    /\ lastCall' = [op |-> "hasAvailableKey", ret |-> hasAvailableKey(keys')]
    /\ delivered' = <<>>
    /\ lastReadDay' = today
    /\ UNCHANGED <<currentIndex, today, successes>>
    /\ UNCHANGED callVars
    /\ UNCHANGED obsVars

CallMarkAsActive ==
    /\ keys' = markAsActive(keys, currentIndex, today)
    /\ lastCall' = [op |-> "markAsActive", ret |-> "void"]
    /\ delivered' = notify(listeners, keys', currentIndex)
    /\ UNCHANGED <<currentIndex, today, successes, lastReadDay>>
    /\ UNCHANGED callVars
    /\ UNCHANGED obsVars

CallMarkSuccess ==
    /\ keys[currentIndex].requestCount < MaxCount
    /\ keys' = markSuccess(keys, currentIndex, today)
    /\ lastCall' = [op |-> "markSuccess", ret |-> "void"]
    /\ delivered' = notify(listeners, keys', currentIndex)
    /\ UNCHANGED <<currentIndex, today, successes, lastReadDay>>
    /\ UNCHANGED callVars
    /\ UNCHANGED obsVars

CallMarkExhaustedAndRotate ==
    LET r == markExhaustedAndRotate(keys, currentIndex)
    IN  /\ keys' = r.keys
        /\ currentIndex' = r.currentIndex
        /\ lastCall' = [op |-> "markExhaustedAndRotate", ret |-> r.switched]
        /\ delivered' = rotateNotifications(listeners, keys, currentIndex)
        /\ UNCHANGED <<today, successes, lastReadDay>>
        /\ UNCHANGED callVars
        /\ UNCHANGED obsVars

CallMarkError(msg) ==
    /\ keys' = markError(keys, currentIndex, msg)
    /\ lastCall' = [op |-> "markError", ret |-> "void"]
    /\ delivered' = notify(listeners, keys', currentIndex)
    /\ UNCHANGED <<currentIndex, today, successes, lastReadDay>>
    /\ UNCHANGED callVars
    /\ UNCHANGED obsVars

\* midnight passes while the manager is idle
PoolDateChange ==
    /\ today < MaxDay
    /\ today' = today + 1
    /\ UNCHANGED <<keys, currentIndex, lastCall, delivered, successes, lastReadDay>>
    /\ UNCHANGED callVars
    /\ UNCHANGED obsVars

NextPool ==
    \/ CallGetCurrentKey
    \/ CallHasAvailableKey
    \/ CallMarkAsActive
    \/ CallMarkSuccess
    \/ CallMarkExhaustedAndRotate
    \/ \E msg \in {InvalidMessage, UpstreamMessage} : CallMarkError(msg)
    \/ PoolDateChange

SpecPool == Init /\ [][NextPool]_vars

\* the three read methods between the mark calls that end an attempt
\* (success, rate limit, error) and date changes
NextRead ==
    \/ CallGetCurrentKey
    \/ CallGetKeyStatuses
    \/ CallHasAvailableKey
    \/ CallMarkSuccess
    \/ CallMarkExhaustedAndRotate
    \/ CallMarkError(InvalidMessage)
    \/ PoolDateChange

SpecRead == Init /\ [][NextRead]_vars

\* ---------------------------------------------------------------------------
\* Subscribers.  A callback is a function value; two subscribe() calls may be
\* given the same one.
\* ---------------------------------------------------------------------------
Callbacks == {"a", "b"}

\* subscribe(listener): this.listeners.push(listener); the closure returned
\* captures the listener
Subscribe(cb) ==
    /\ Len(handles) < MaxSubs
    /\ listeners' = Append(listeners, [cb |-> cb, reg |-> Len(handles) + 1])
    /\ handles' = Append(handles, cb)
    /\ lastCall' = [op |-> "subscribe", ret |-> Len(handles) + 1]
    /\ delivered' = <<>>
    /\ UNCHANGED <<keys, currentIndex, today, successes, lastReadDay, snapshot,
                   streak, falseAt>>
    /\ UNCHANGED callVars
    /\ UNCHANGED extVars

\* the returned closure: this.listeners = this.listeners.filter(l => l !== listener)
Unsubscribe(h) ==
    /\ h \in DOMAIN handles
    /\ listeners' = SelectSeq(listeners, LAMBDA l : l.cb # handles[h])
    /\ lastCall' = [op |-> "unsubscribe", ret |-> h]
    /\ delivered' = <<>>
    /\ UNCHANGED <<keys, currentIndex, today, successes, lastReadDay, snapshot,
                   handles, streak, falseAt>>
    /\ UNCHANGED callVars
    /\ UNCHANGED extVars

\* subscribers come and go while the mark methods are called
NextNotify ==
    \/ \E cb \in Callbacks : Subscribe(cb)
    \/ \E h \in 1..MaxSubs : Unsubscribe(h)
    \/ CallMarkAsActive
    \/ CallMarkSuccess
    \/ CallMarkExhaustedAndRotate
    \/ CallMarkError(InvalidMessage)

SpecNotify == Init /\ [][NextNotify]_vars

\* subscribers watching a pool that is used over more than one day
NextObserve ==
    \/ \E cb \in Callbacks : Subscribe(cb)
    \/ CallGetCurrentKey
    \/ CallHasAvailableKey
    \/ CallMarkSuccess
    \/ CallMarkExhaustedAndRotate
    \/ \E msg \in {UpstreamMessage, LongMessage} : CallMarkError(msg)
    \/ PoolDateChange

SpecObserve == Init /\ [][NextObserve]_vars

\* ---------------------------------------------------------------------------
\* A consumer of getKeyStatuses() or of a notification.  The array is new,
\* its elements are the manager's own key records: every method assigns to
\* those records in place, so entry ref of a kept array is keys[ref] for good.
\* ---------------------------------------------------------------------------

\* a subscriber keeps the array its callback was called with
SubscriberKeeps ==
    /\ delivered # <<>>
    /\ snapshot' = [j \in 1..N |-> [ref |-> j - 1]]
    /\ UNCHANGED <<keys, currentIndex, today, lastCall, delivered, successes,
                   lastReadDay, listeners, handles, streak, falseAt>>
    /\ UNCHANGED callVars
    /\ UNCHANGED extVars

\* statuses.length = 0: the consumer changes the array itself
ClientWritesArray ==
    /\ snapshot # <<>>
    /\ snapshot' = <<>>
    /\ UNCHANGED <<keys, currentIndex, today, lastCall, delivered, successes,
                   lastReadDay, listeners, handles, streak, falseAt>>
    /\ UNCHANGED callVars
    /\ UNCHANGED extVars

\* what a consumer may assign to a record
ClientFields == {"status", "requestCount", "errorMessage"}

ClientAssign(k, f) ==
    CASE f = "status"       -> [k EXCEPT !.status = "available"]
      [] f = "requestCount" -> [k EXCEPT !.requestCount = 0]
      [] f = "errorMessage" -> [k EXCEPT !.errorMessage = NoMessage]

\* statuses[j].status = 'available' and the like: the element is the record
\* the manager holds, so the assignment lands in this.keys
ClientWritesRecord(j, f) ==
    /\ j \in DOMAIN snapshot
    /\ keys' = [keys EXCEPT ![snapshot[j].ref] = ClientAssign(@, f)]
    /\ UNCHANGED <<currentIndex, today, lastCall, delivered, successes,
                   lastReadDay, snapshot, listeners, handles, streak, falseAt>>
    /\ UNCHANGED callVars
    /\ UNCHANGED extVars

ClientStep ==
    \/ ClientWritesArray
    \/ \E j \in 1..MaxKeys, f \in ClientFields : ClientWritesRecord(j, f)

NextSnapshot ==
    \/ CallGetKeyStatuses
    \/ CallMarkSuccess
    \/ CallMarkExhaustedAndRotate
    \/ (handles = <<>> /\ Subscribe("a"))
    \/ SubscriberKeeps
    \/ ClientWritesArray
    \/ \E j \in 1..MaxKeys, f \in ClientFields : ClientWritesRecord(j, f)

SpecSnapshot == Init /\ [][NextSnapshot]_vars

\* ---------------------------------------------------------------------------
\* Two callers of the public operations on one service.  generateDraft and
\* each item of analyzeReferences are one executeWithRetry(operation) with
\* the default maxRetries; nothing in the service makes a second call wait
\* for the first, so the synchronous segments of the two interleave at the
\* awaits.  The date does not change.
\* ---------------------------------------------------------------------------

\* one failure of each kind
ConcErrors ==
    {e \in ErrorSet : e.status \in {429, 500} \/ e.marks = {"NOT_FOUND"}}

\* a public operation is called: executeWithRetry starts, let attempts = 0
ConcStart(c) ==
    /\ calls[c].pc \in {"idle", "done"}
    /\ calls' = [calls EXCEPT ![c] = [pc |-> "loop", attempts |-> 0,
                                      usedKey |-> 0, outcome |-> "none"]]
    /\ UNCHANGED <<keys, currentIndex, today, lastCall, delivered, successes,
                   lastReadDay, batch, bcast>>
    /\ UNCHANGED callVars
    /\ UNCHANGED watchVars

\* the loop head of caller c, up to its await of operation(genAI)
ConcLoopHead(c) ==
    /\ calls[c].pc = "loop"
    /\ IF ~LoopCondition(calls[c].attempts, DefaultRetries)
       THEN /\ calls' = [calls EXCEPT ![c].pc = "done",
                                      ![c].outcome = "RetriesExceeded"]
            /\ UNCHANGED <<keys, delivered, lastReadDay>>
       ELSE LET reset == checkDailyReset(keys, today)
            IN  IF ~hasAvailableKey(reset)
                THEN /\ keys' = reset
                     /\ calls' = [calls EXCEPT ![c].pc = "done",
                                      ![c].outcome = "ExhaustedBeforeAttempt"]
                     /\ delivered' = <<>>
                     /\ lastReadDay' = today
                ELSE LET active == markAsActive(reset, currentIndex, today)
                         read   == checkDailyReset(active, today)
                     IN  /\ keys' = read
                         /\ calls' = [calls EXCEPT ![c].pc = "await",
                                          ![c].usedKey = read[currentIndex].key]
                         /\ delivered' = notify(listeners, active, currentIndex)
                         /\ lastReadDay' = today
    /\ UNCHANGED <<currentIndex, today, lastCall, successes, batch, bcast>>
    /\ UNCHANGED callVars
    /\ UNCHANGED watchVars

\* the operation of caller c resolves: this.keyManager.markSuccess()
ConcSucceeds(c) ==
    /\ calls[c].pc = "await"
    /\ keys[currentIndex].requestCount < MaxCount
    /\ keys' = markSuccess(keys, currentIndex, today)
    /\ calls' = [calls EXCEPT ![c].pc = "done", ![c].outcome = "result"]
    /\ delivered' = notify(listeners, keys', currentIndex)
    /\ successes' = [successes EXCEPT ![KeyIndex(keys, calls[c].usedKey)] = @ + 1]
    /\ UNCHANGED <<currentIndex, today, lastCall, lastReadDay, batch, bcast>>
    /\ UNCHANGED callVars
    /\ UNCHANGED watchVars

\* the operation of caller c rejects with e: the catch block of caller c
ConcFails(c, e) ==
    /\ calls[c].pc = "await"
    /\ CASE Classify(e) = "RateLimited" ->
              LET r == markExhaustedAndRotate(keys, currentIndex)
              IN  /\ keys' = r.keys
                  /\ currentIndex' = r.currentIndex
                  /\ calls' = IF r.switched
                              THEN [calls EXCEPT ![c].pc = "backoff"]
                              ELSE [calls EXCEPT ![c].pc = "done",
                                        ![c].outcome = "ExhaustedAfterRotate"]
                  /\ delivered' = rotateNotifications(listeners, keys, currentIndex)
         [] Classify(e) = "NotFound" ->
              /\ keys' = markError(keys, currentIndex, InvalidMessage)
              /\ calls' = [calls EXCEPT ![c].pc = "done", ![c].outcome = "NotFound"]
              /\ delivered' = notify(listeners, keys', currentIndex)
              /\ UNCHANGED currentIndex
         [] OTHER ->
              /\ keys' = markError(keys, currentIndex,
                                   substring(errorMessageOf(e), TruncateAt))
              /\ calls' = [calls EXCEPT ![c].pc = "done", ![c].outcome = "Propagated"]
              /\ delivered' = notify(listeners, keys', currentIndex)
              /\ UNCHANGED currentIndex
    /\ UNCHANGED <<today, lastCall, successes, lastReadDay, batch, bcast>>
    /\ UNCHANGED callVars
    /\ UNCHANGED watchVars

\* delay(2000) of caller c elapses: attempts++
ConcBackoffDone(c) ==
    /\ calls[c].pc = "backoff"
    /\ calls' = [calls EXCEPT ![c].pc = "loop", ![c].attempts = @ + 1]
    /\ UNCHANGED <<keys, currentIndex, today, lastCall, delivered, successes,
                   lastReadDay, batch, bcast>>
    /\ UNCHANGED callVars
    /\ UNCHANGED watchVars

NextConcurrent ==
    \E c \in Callers :
        \/ ConcStart(c)
        \/ ConcLoopHead(c)
        \/ ConcSucceeds(c)
        \/ \E e \in ConcErrors : ConcFails(c, e)
        \/ ConcBackoffDone(c)

SpecConcurrent == Init /\ [][NextConcurrent]_vars

\* ---------------------------------------------------------------------------
\* analyzeReferences(references): one executeWithRetry per reference.  The
\* result of the operation for references[i] is written i; the combined
\* string is the list of results in the order they were pushed.
\* ---------------------------------------------------------------------------

\* the entry of executeWithRetry(operation) with the default maxRetries
StartCall ==
    /\ pc' = "loop"
    /\ attempts' = 0
    /\ maxRetries' = DefaultRetries
    /\ currentKey' = 0
    /\ caught' = NoError
    /\ outcome' = "none"
    /\ invocations' = 0
    /\ selStatus' = "none"
    /\ altAvailable' = FALSE
    /\ onlyRateLimit' =
          \A i \in DOMAIN keys : checkDailyReset(keys, today)[i].status = "available"

\* mutant: the delay is taken after the last reference too
MoreItems_Always(i, n) == i < n

\* if (i < references.length - 1)
MoreItems(i, n) == i < n - 1

\* analyzeReferences is called with n references: results = [], and the
\* loop enters its first iteration, or falls through when the list is empty
AnalyzeReferences(n) ==
    /\ batch.pc \in {"idle", "returned", "failed"}
    /\ pc \in {"idle", "done"}
    /\ IF n = 0
       THEN /\ batch' = [pc |-> "returned", n |-> 0, i |-> 0, results |-> <<>>,
                         delays |-> 0,
                         returned |-> [kind |-> "combined", items |-> <<>>]]
            /\ UNCHANGED callVars
       ELSE /\ batch' = [pc |-> "item", n |-> n, i |-> 0, results |-> <<>>,
                         delays |-> 0, returned |-> NoReturn]
            /\ StartCall
    /\ UNCHANGED <<keys, currentIndex, today, lastCall, delivered, successes,
                   lastReadDay, calls, bcast>>
    /\ UNCHANGED watchVars

\* mutant: the results gathered so far are handed back when an item fails
BatchItemThrows_Partial ==
    /\ batch.pc = "item"
    /\ pc = "done" /\ outcome # "result"
    /\ batch' = [batch EXCEPT !.pc = "failed",
                    !.returned = [kind |-> "combined", items |-> batch.results]]
    /\ UNCHANGED <<keys, currentIndex, today, lastCall, delivered, successes,
                   lastReadDay, calls, bcast>>
    /\ UNCHANGED callVars
    /\ UNCHANGED watchVars

\* executeWithRetry threw: nothing catches it in analyzeReferences, the
\* promise rejects and results is dropped
BatchItemThrows ==
    /\ batch.pc = "item"
    /\ pc = "done" /\ outcome # "result"
    /\ batch' = [batch EXCEPT !.pc = "failed",
                    !.returned = [kind |-> "failure", items |-> <<>>]]
    /\ UNCHANGED <<keys, currentIndex, today, lastCall, delivered, successes,
                   lastReadDay, calls, bcast>>
    /\ UNCHANGED callVars
    /\ UNCHANGED watchVars

\* executeWithRetry returned: results.push(result), then the delay before
\* the next reference or, after the last one, the combined result
BatchItemReturns ==
    /\ batch.pc = "item"
    /\ pc = "done" /\ outcome = "result"
    /\ LET pushed == Append(batch.results, batch.i)
       IN  batch' = IF MoreItems(batch.i, batch.n)
                    THEN [batch EXCEPT !.pc = "delay", !.results = pushed,
                                       !.delays = @ + 1]
                    ELSE [batch EXCEPT !.pc = "returned", !.results = pushed,
                             !.returned = [kind |-> "combined", items |-> pushed]]
    /\ UNCHANGED <<keys, currentIndex, today, lastCall, delivered, successes,
                   lastReadDay, calls, bcast>>
    /\ UNCHANGED callVars
    /\ UNCHANGED watchVars

\* delay(2000) elapses: i++ and executeWithRetry for the next reference
BatchDelayDone ==
    /\ batch.pc = "delay"
    /\ batch' = [batch EXCEPT !.pc = "item", !.i = @ + 1]
    /\ StartCall
    /\ UNCHANGED <<keys, currentIndex, today, lastCall, delivered, successes,
                   lastReadDay, calls, bcast>>
    /\ UNCHANGED watchVars

NextBatch ==
    \/ \E n \in 0..MaxItems : AnalyzeReferences(n)
    \/ LoopHead
    \/ OperationSucceeds
    \/ \E e \in ConcErrors : OperationFails(e)
    \/ HandleFailure
    \/ BackoffDone
    \/ BatchItemReturns
    \/ BatchItemThrows
    \/ BatchDelayDone

SpecBatch == Init /\ [][NextBatch]_vars

\* ---------------------------------------------------------------------------
\* Repeated executeWithRetry calls on one day against an upstream that
\* rejects every request made with the first key and accepts every request
\* made with any other key.  An operation that was started completes, a
\* delay elapses, and the caller calls again after every return or throw.
\* ---------------------------------------------------------------------------

\* the key the upstream rejects
BadKey == NewKeys(1, 0)[0].key

\* the operation resolves: it was given a key the upstream accepts
ProgressSucceeds ==
    /\ currentKey # BadKey
    /\ OperationSucceeds

\* the operation rejects: it was given the key the upstream rejects
ProgressFails(e) ==
    /\ currentKey = BadKey
    /\ OperationFails(e)

NextProgress ==
    \/ \E m \in 1..MaxAttempts : Execute(m)
    \/ LoopHead
    \/ ProgressSucceeds
    \/ \E e \in ErrorSet : ProgressFails(e)
    \/ HandleFailure
    \/ BackoffDone

SpecProgress == Init /\ [][NextProgress]_vars /\ WF_vars(NextProgress)

\* ---------------------------------------------------------------------------
\* executeWithRetry with an operation and a delay that always settle.  The
\* synchronous segments (loop head, catch block) run to completion once
\* entered; a pending operation(genAI) resolves or rejects; a pending
\* delay(2000) elapses.  The date does not change.
\* ---------------------------------------------------------------------------

\* the pending operation(genAI) settles
OperationSettles ==
    \/ OperationSucceeds
    \/ \E e \in ConcErrors : OperationFails(e)

NextLive ==
    \/ \E m \in 1..MaxAttempts : Execute(m)
    \/ LoopHead
    \/ OperationSucceeds
    \/ \E e \in ConcErrors : OperationFails(e)
    \/ HandleFailure
    \/ BackoffDone

SpecLive ==
    /\ Init
    /\ [][NextLive]_vars
    /\ WF_vars(LoopHead)
    /\ WF_vars(OperationSettles)
    /\ WF_vars(HandleFailure)
    /\ WF_vars(BackoffDone)

\* ---------------------------------------------------------------------------
\* Listeners that subscribe and unsubscribe from inside their own call.
\* notify() reads this.listeners once and forEach walks that array up to the
\* length it had at the start.  A handle assigns a new, filtered array to
\* this.listeners and leaves the array being walked as it is; a subscribe
\* pushes onto whatever array this.listeners is, past the length forEach
\* took.  bcast.array is the array being walked, bcast.pos the next element,
\* bcast.revoked the subscribe calls whose handle has been invoked, and
\* bcast.late the subscribe calls made during the walk.
\* ---------------------------------------------------------------------------

\* what the body of a listener may do with the manager
ListenerDoes ==
    {[do |-> "nothing", arg |-> 0]}
      \cup {[do |-> "unsubscribe", arg |-> h] : h \in 1..MaxSubs}
      \cup {[do |-> "subscribe", arg |-> cb] : cb \in Callbacks}

\* a handle is invoked while no notify() is running
IdleUnsubscribe(h) ==
    /\ ~bcast.running
    /\ h \in DOMAIN handles
    /\ listeners' = SelectSeq(listeners, LAMBDA l : l.cb # handles[h])
    /\ bcast' = [bcast EXCEPT !.revoked = @ \cup {h}]
    /\ lastCall' = [op |-> "unsubscribe", ret |-> h]
    /\ delivered' = <<>>
    /\ UNCHANGED <<keys, currentIndex, today, successes, lastReadDay, snapshot,
                   handles, streak, falseAt, calls, batch>>
    /\ UNCHANGED callVars

\* markAsActive() up to the first listener call of its notify()
BroadcastStart ==
    /\ ~bcast.running
    /\ keys' = markAsActive(keys, currentIndex, today)
    /\ lastCall' = [op |-> "markAsActive", ret |-> "void"]
    /\ delivered' = <<>>
    /\ bcast' = IF listeners = <<>>
                THEN [NoBroadcast EXCEPT !.revoked = bcast.revoked]
                ELSE [running |-> TRUE, array |-> listeners, pos |-> 1,
                      revoked |-> bcast.revoked, late |-> {}]
    /\ UNCHANGED <<currentIndex, today, successes, lastReadDay>>
    /\ UNCHANGED callVars
    /\ UNCHANGED <<watchVars, calls, batch>>

\* forEach calls the next element of the array it walks; the listener body
\* does act; after the last element notify() and markAsActive() return
BroadcastCall(act) ==
    /\ bcast.running
    /\ LET l    == bcast.array[bcast.pos]
           last == bcast.pos = Len(bcast.array)
           reg  == Len(handles) + 1
       IN  /\ delivered' = Append(delivered,
                 [reg |-> l.reg, cb |-> l.cb, keys |-> keys, index |-> currentIndex])
           /\ CASE act.do = "nothing" ->
                    /\ bcast' = [bcast EXCEPT !.pos = @ + 1, !.running = ~last]
                    /\ UNCHANGED <<listeners, handles>>
                [] act.do = "unsubscribe" ->
                    /\ act.arg \in DOMAIN handles
                    /\ listeners' = SelectSeq(listeners,
                                              LAMBDA x : x.cb # handles[act.arg])
                    /\ bcast' = [bcast EXCEPT !.pos = @ + 1, !.running = ~last,
                                              !.revoked = @ \cup {act.arg}]
                    /\ UNCHANGED handles
                [] act.do = "subscribe" ->
                    /\ Len(handles) < MaxSubs
                    /\ listeners' = Append(listeners, [cb |-> act.arg, reg |-> reg])
                    /\ handles' = Append(handles, act.arg)
                    /\ bcast' = [bcast EXCEPT !.pos = @ + 1, !.running = ~last,
                                              !.late = @ \cup {reg}]
    /\ UNCHANGED <<keys, currentIndex, today, lastCall, successes, lastReadDay,
                   snapshot, streak, falseAt, calls, batch>>
    /\ UNCHANGED callVars

NextReentrant ==
    \/ \E cb \in Callbacks : ~bcast.running /\ Subscribe(cb)
    \/ \E h \in 1..MaxSubs : IdleUnsubscribe(h)
    \/ BroadcastStart
    \/ \E act \in ListenerDoes : BroadcastCall(act)

SpecReentrant == Init /\ [][NextReentrant]_vars

\* ---------------------------------------------------------------------------
\* A client that drains the pool: markExhaustedAndRotate() called again and
\* again, hasAvailableKey() asked in between, and the date moving on.
\* ---------------------------------------------------------------------------

\* keyManager.markExhaustedAndRotate(), the streak-th call in succession
ExhaustRotate ==
    /\ streak \in 0..(N + 1)
    /\ LET r == markExhaustedAndRotate(keys, currentIndex)
       IN  /\ keys' = r.keys
           /\ currentIndex' = r.currentIndex
           /\ lastCall' = [op |-> "markExhaustedAndRotate", ret |-> r.switched]
           /\ delivered' = rotateNotifications(listeners, keys, currentIndex)
           /\ falseAt' = IF falseAt = 0 /\ ~r.switched THEN streak + 1 ELSE falseAt
    /\ streak' = streak + 1
    /\ UNCHANGED <<today, successes, lastReadDay, listeners, handles, snapshot>>
    /\ UNCHANGED callVars
    /\ UNCHANGED extVars

\* keyManager.hasAvailableKey(); a reset makes the pool all available again,
\* and a new succession starts there
ExhaustCheck ==
    /\ keys' = checkDailyReset(keys, today)
    /\ lastCall' = [op |-> "hasAvailableKey", ret |-> hasAvailableKey(keys')]
    /\ delivered' = <<>>
    /\ lastReadDay' = today
    /\ IF \A i \in DOMAIN keys : keys'[i].status = "available"
       THEN streak' = 0 /\ falseAt' = 0
       ELSE UNCHANGED <<streak, falseAt>>
    /\ UNCHANGED <<currentIndex, today, successes, listeners, handles, snapshot>>
    /\ UNCHANGED callVars
    /\ UNCHANGED extVars

ExhaustDateChange ==
    /\ today < MaxDay
    /\ today' = today + 1
    /\ UNCHANGED <<keys, currentIndex, lastCall, delivered, successes, lastReadDay>>
    /\ UNCHANGED callVars
    /\ UNCHANGED obsVars

NextExhaust ==
    \/ ExhaustRotate
    \/ ExhaustCheck
    \/ ExhaustDateChange

SpecExhaust == Init /\ [][NextExhaust]_vars

\* ------------------------------------------------------------------ claims

\* the failure kind AllCredentialsExhausted: both throw sites of the dispatcher
AllCredentialsExhausted == {"ExhaustedBeforeAttempt", "ExhaustedAfterRotate"}

\* a key is terminal for the day: exhausted or errored, and already reset today
TerminalToday(i) ==
    /\ keys[i].status \in {"exhausted", "error"}
    /\ keys[i].lastResetDate = today

\* C1: on one calendar day a credential that is Exhausted or Errored keeps
\* that state in every step; only the daily reset after a date change makes
\* it Available again.
C1_TerminalForTheDay ==
    [][\A i \in DOMAIN keys :
          (TerminalToday(i) /\ today' = today) => keys'[i].status = keys[i].status]_vars

\* C2: the operation is never invoked with a credential that was Exhausted
\* when it was selected while another credential was Available.
C2_NoExhaustedWhileAlternative ==
    ~(selStatus = "exhausted" /\ altAvailable)

\* an invocation is in flight on an Available credential chosen by a rotation
\* that left an Exhausted credential behind, with a further alternative
C2_Witness ==
    /\ pc = "await"
    /\ attempts >= 1
    /\ selStatus = "available"
    /\ altAvailable
    /\ \E i \in DOMAIN keys : keys[i].status = "exhausted"

\* C3: a call with maxRetries = M invokes the operation at most M times.
C3_BoundedInvocations ==
    (pc # "idle") => invocations <= maxRetries

\* the whole budget is spent: the M-th invocation of a call with M >= 2
C3_Witness ==
    /\ pc = "await"
    /\ maxRetries >= 2
    /\ invocations = maxRetries

\* C4: N keys all Available, no date change, every failure a rate limit:
\* the call makes exactly min(N, M) invocations and ends with
\* AllCredentialsExhausted when N <= M, with RetriesExceeded when N > M.
C4_AlwaysRateLimited ==
    (pc = "done" /\ onlyRateLimit) =>
        /\ invocations = Min(N, maxRetries)
        /\ (N <= maxRetries => outcome \in AllCredentialsExhausted)
        /\ (N > maxRetries => outcome = "RetriesExceeded")

\* the scenario of the spec: 2 keys, maxRetries = 3, two attempts
C4_Witness ==
    /\ pc = "done"
    /\ onlyRateLimit
    /\ N = 2
    /\ maxRetries = 3
    /\ invocations = 2
    /\ outcome = "ExhaustedAfterRotate"

\* C5: when an attempt starts and no credential is Available after the lazy
\* reset, the call fails at once with AllCredentialsExhausted: no invocation,
\* no credential marked active, cursor unmoved, no further attempt.
C5_FastFail ==
    [][(/\ pc = "loop"
        /\ attempts < maxRetries
        /\ \A i \in DOMAIN keys : checkDailyReset(keys, today)[i].status # "available")
       => (/\ pc' = "done"
           /\ outcome' \in AllCredentialsExhausted
           /\ invocations' = invocations
           /\ currentIndex' = currentIndex
           /\ \A i \in DOMAIN keys : keys'[i].status # "active")]_vars

\* a call that ended at the availability check without any invocation
C5_Witness ==
    /\ pc = "done"
    /\ outcome = "ExhaustedBeforeAttempt"
    /\ invocations = 0
    /\ \A i \in DOMAIN keys : keys[i].status \in {"exhausted", "error"}

\* C6: when the operation succeeds the call returns the result at once; the
\* credential used is Available with usageCount one higher, the cursor still
\* points at it and currentCredential() returns the value that was used.
C6_Success ==
    [][(pc = "await" /\ pc' \notin {"await", "caught"})
       => (/\ pc' = "done"
           /\ outcome' = "result"
           /\ invocations' = invocations
           /\ currentIndex' = currentIndex
           /\ keys'[currentIndex].status = "available"
           /\ keys'[currentIndex].requestCount = keys[currentIndex].requestCount + 1
           /\ checkDailyReset(keys', today')[currentIndex'].key = currentKey)]_vars

\* the scenario of the spec: one key, success on the first call
C6_Witness ==
    /\ pc = "done"
    /\ outcome = "result"
    /\ N = 1
    /\ invocations = 1
    /\ keys[0].status = "available"
    /\ keys[0].requestCount = 1

\* the first Available credential after index ci in circular order, or ci
\* itself when there is none (written without the scan)
Dist(ci, j, n) == (j - ci + n) % n
FirstAvailableAfter(ks, ci) ==
    LET n     == Cardinality(DOMAIN ks)
        avail == {j \in DOMAIN ks : j # ci /\ ks[j].status = "available"}
    IN  IF avail = {} THEN ci
        ELSE CHOOSE j \in avail : \A k \in avail : Dist(ci, j, n) <= Dist(ci, k, n)

\* the failure in hand is a rate limit by the tests of the catch block
CaughtRateLimit ==
    \/ statusOf(caught) = 429
    \/ "429" \in errorMessageOf(caught).marks
    \/ "RESOURCE_EXHAUSTED" \in errorMessageOf(caught).marks

CaughtNotFound ==
    \/ statusOf(caught) = 404
    \/ "404" \in errorMessageOf(caught).marks
    \/ "NOT_FOUND" \in errorMessageOf(caught).marks

\* C7: after a rate-limited attempt the rotation decides: no Available
\* credential left, the call fails with AllCredentialsExhausted without
\* another invocation; otherwise the call waits for the backoff, and the next
\* invocation, made only once the backoff is over, uses the credential the
\* rotation selected.
C7_RotateThenBackoff ==
    [][/\ (pc = "caught" /\ CaughtRateLimit) =>
             LET target == FirstAvailableAfter(keys, currentIndex)
             IN  /\ invocations' = invocations
                 /\ IF target = currentIndex
                    THEN pc' = "done" /\ outcome' \in AllCredentialsExhausted
                    ELSE pc' = "backoff" /\ currentIndex' = target
       /\ (pc = "backoff") =>
             /\ invocations' = invocations
             /\ currentIndex' = currentIndex
             /\ pc' \in {"backoff", "loop"}
       /\ (pc = "loop" /\ attempts >= 1 /\ pc' = "await") =>
             /\ currentIndex' = currentIndex
             /\ currentKey' = keys[currentIndex].key]_vars

\* the second attempt of a call is in flight on the key after the exhausted one
C7_Witness ==
    /\ pc = "await"
    /\ attempts = 1
    /\ invocations = 2
    /\ currentIndex = 1
    /\ keys[0].status = "exhausted"
    /\ currentKey = keys[1].key

\* C8: a not-found failure or any other non-rate-limit failure marks the
\* credential at the cursor Errored and fails the call without another
\* invocation; the cursor and every other credential are unchanged.
C8_ErrorIsFatal ==
    [][(pc = "caught" /\ ~CaughtRateLimit)
       => (/\ pc' = "done"
           /\ outcome' = (IF CaughtNotFound THEN "NotFound" ELSE "Propagated")
           /\ invocations' = invocations
           /\ currentIndex' = currentIndex
           /\ keys'[currentIndex].status = "error"
           /\ \A i \in DOMAIN keys : i # currentIndex => keys'[i] = keys[i])]_vars

\* the scenario of the spec: [k1, k2], not-found on k1
C8_Witness ==
    /\ pc = "done"
    /\ outcome = "NotFound"
    /\ N = 2
    /\ currentIndex = 0
    /\ invocations = 1
    /\ keys[0].status = "error"
    /\ keys[1].status = "available"

\* how the catch block handled the failure, read off the step it took
HandledAsRateLimited == pc' = "backoff" \/ (pc' = "done" /\ outcome' = "ExhaustedAfterRotate")
HandledAsNotFound    == pc' = "done" /\ outcome' = "NotFound"
HandledAsOther       == pc' = "done" /\ outcome' = "Propagated"

\* C9 as stated: the taxonomy decides the handling, and in particular a
\* failure with numeric status 404 is always handled as NotFound.
C9_Original ==
    [][(pc = "caught" /\ pc' # "caught")
       => (/\ HandledAsRateLimited <=> CaughtRateLimit
           /\ HandledAsNotFound <=> (~CaughtRateLimit /\ CaughtNotFound)
           /\ HandledAsOther <=> (~CaughtRateLimit /\ ~CaughtNotFound)
           /\ statusOf(caught) = 404 => HandledAsNotFound)]_vars

\* C9 amended: the rate-limit tests come first, so a failure with numeric
\* status 404 is handled as NotFound exactly when its status is not 429 and
\* its message holds neither "429" nor "RESOURCE_EXHAUSTED".
C9_Taxonomy ==
    [][(pc = "caught" /\ pc' # "caught")
       => (/\ HandledAsRateLimited <=> CaughtRateLimit
           /\ HandledAsNotFound <=> (~CaughtRateLimit /\ CaughtNotFound)
           /\ HandledAsOther <=> (~CaughtRateLimit /\ ~CaughtNotFound)
           /\ HandledAsRateLimited => keys'[currentIndex].status = "exhausted"
           /\ (HandledAsNotFound \/ HandledAsOther) => keys'[currentIndex].status = "error")]_vars

\* a failure with status 404 whose message also holds a rate-limit marker
\* has been caught
C9_Witness ==
    /\ pc = "caught"
    /\ caught.status = 404
    /\ caught.hasMessage
    /\ "429" \in caught.marks

\* C10: markExhaustedAndRotate marks the credential at the cursor Exhausted,
\* then moves the cursor to the first Available credential after it in
\* circular order and returns true, or leaves the cursor and returns false
\* when there is none; it never selects a credential that is not Available
\* nor the one it started from.
C10_Rotate ==
    [][(lastCall'.op = "markExhaustedAndRotate" /\ today' = today)
       => LET target == FirstAvailableAfter(keys, currentIndex)
          IN  /\ keys'[currentIndex].status = "exhausted"
              /\ currentIndex' = target
              /\ lastCall'.ret = (target # currentIndex)
              /\ lastCall'.ret => keys[currentIndex'].status = "available"
              /\ (N = 1) => lastCall'.ret = FALSE]_vars

\* a rotation wrapped around the end of a pool of three and returned true
C10_Witness ==
    /\ lastCall = [op |-> "markExhaustedAndRotate", ret |-> TRUE]
    /\ N = 3
    /\ currentIndex = 0
    /\ keys[2].status = "exhausted"
    /\ keys[0].status = "available"

\* ---------------------------------------------------------------------------
\* C11 (as stated): on a pool of N keys, all available, a false has come back
\* from markExhaustedAndRotate by the time N-1 calls (and at least one) were
\* made in succession.
C11_Original ==
    (streak >= 1 /\ streak >= N - 1) => falseAt \in 1..streak

\* C11: on a pool of N keys, all available, the first N-1 calls of
\* markExhaustedAndRotate in succession return true and the N-th is the first
\* to return false; from then on hasAvailableKey() returns false, until a
\* read after a date change has reset the keys.
C11_ExhaustsAtNth ==
    /\ streak \in 0..(N - 1) => falseAt = 0
    /\ streak >= N => falseAt = N
    /\ (falseAt # 0 /\ lastCall.op = "hasAvailableKey") => lastCall.ret = FALSE
    /\ (falseAt # 0 /\ lastCall.op = "markExhaustedAndRotate"
           /\ streak > falseAt) => lastCall.ret = FALSE

C11_Witness ==
    /\ N = MaxKeys
    /\ falseAt = N
    /\ lastCall = [op |-> "hasAvailableKey", ret |-> FALSE]
    /\ currentIndex # 0
\* ---------------------------------------------------------------------------
\* C12: between pool operations the cursor is an index of the pool
\* (0 <= currentIndex < length), so exactly one key is the selected one, and
\* no operation changes the length of the pool.
C12_CursorValid ==
    /\ currentIndex \in DOMAIN keys
    /\ [][/\ DOMAIN keys' = DOMAIN keys
          /\ DOMAIN keys' = 0..(Cardinality(DOMAIN keys') - 1)
          /\ currentIndex' \in DOMAIN keys'
          /\ Cardinality({i \in DOMAIN keys' : i = currentIndex'}) = 1]_vars

\* a rotation on a full-size pool that wrapped round to the first key
C12_Witness ==
    /\ Cardinality(DOMAIN keys) = MaxKeys
    /\ lastCall = [op |-> "markExhaustedAndRotate", ret |-> TRUE]
    /\ currentIndex = 0
    /\ keys[MaxKeys - 1].status = "exhausted"
\* ---------------------------------------------------------------------------
\* the methods that call checkDailyReset
ReadOps == {"getCurrentKey", "hasAvailableKey", "getKeyStatuses"}

\* a step of SpecRead that is one call of a read method
ReadStep == lastCall'.op \in ReadOps /\ today' = today

\* C13: a read method (getCurrentKey, hasAvailableKey, getKeyStatuses) first
\* resets the stale keys: a key whose lastResetDate is not today becomes
\* available with requestCount 0, no errorMessage and lastResetDate today,
\* whatever its status was; a key whose lastResetDate is today is left as it
\* is; the cursor does not move; and the value returned is read from the
\* keys after the reset.
C13_ReadAppliesReset ==
    [][ReadStep =>
        /\ \A i \in DOMAIN keys :
              IF keys[i].lastResetDate # today
              THEN /\ keys'[i].status = "available"
                   /\ keys'[i].requestCount = 0
                   /\ keys'[i].errorMessage = NoMessage
                   /\ keys'[i].lastResetDate = today
                   /\ keys'[i].key = keys[i].key
              ELSE keys'[i] = keys[i]
        /\ currentIndex' = currentIndex
        /\ lastCall'.op = "getCurrentKey" => lastCall'.ret = keys'[currentIndex'].key
        /\ lastCall'.op = "hasAvailableKey" =>
              lastCall'.ret = (\E i \in DOMAIN keys : keys'[i].status = "available")
       ]_vars

\* a read on the next day has reset a key that carried a count from the day before
C13_Witness ==
    /\ lastCall.op \in ReadOps
    /\ today = 1
    /\ \E i \in DOMAIN keys :
          /\ keys[i].lastUsed = 0
          /\ keys[i].lastResetDate = 1
          /\ keys[i].status = "available"
          /\ keys[i].requestCount = 0
          /\ keys[i].errorMessage = NoMessage
    /\ \A i \in DOMAIN keys : keys[i].lastResetDate = today
\* ---------------------------------------------------------------------------
\* C14: a read method called on the date of the previous read (or of the
\* constructor), with any mark calls in between, changes no key and does not
\* move the cursor: status, requestCount and errorMessage stay as the mark
\* calls left them.
C14_ResetIdempotent ==
    [][(ReadStep /\ lastReadDay = today) =>
          (keys' = keys /\ currentIndex' = currentIndex)]_vars

\* a second read on day 1 that found marks made after the first read of that day
C14_Witness ==
    /\ lastCall.op \in ReadOps
    /\ today = 1 /\ lastReadDay = 1
    /\ \E i, j \in DOMAIN keys :
          /\ keys[i].lastResetDate = 1 /\ keys[i].status = "error"
          /\ keys[i].requestCount > 0
          /\ keys[j].status = "exhausted"
\* ---------------------------------------------------------------------------
\* C15: at every point of any sequence of executeWithRetry calls, each key's
\* requestCount is the number of operation calls that resolved with that key
\* since the key was last reset; an attempt that fails, whatever the error,
\* leaves every requestCount as it was.
C15_CountsSuccesses ==
    \A i \in DOMAIN keys : keys[i].requestCount = successes[i]

\* a call has ended on a key that had succeeded before and failed this time
C15_Witness ==
    /\ pc = "done"
    /\ outcome \in {"Propagated", "ExhaustedAfterRotate"}
    /\ \E i \in DOMAIN keys :
          /\ keys[i].requestCount = MaxCount
          /\ keys[i].status \in {"error", "exhausted"}
    /\ \E i \in DOMAIN keys : keys[i].requestCount = 0 /\ keys[i].status = "exhausted"
\* ---------------------------------------------------------------------------
\* C16: after markError(message), for any message and any caller, the
\* errorMessage stored on the key at the cursor is at most TruncateAt
\* characters long; no key ever holds a longer one.
C16_ErrorMessageBounded ==
    /\ \A i \in DOMAIN keys : keys[i].errorMessage.len <= TruncateAt
    /\ lastCall.op = "markError" => keys[currentIndex].errorMessage.len <= TruncateAt
\* ---------------------------------------------------------------------------
\* C17: the array from getKeyStatuses(), or the one handed to a subscriber,
\* is a copy: whatever a consumer assigns to the array or to the records in
\* it, the manager's keys and cursor stay as they were.
C17_SnapshotIsCopy ==
    [][ClientStep => (keys' = keys /\ currentIndex' = currentIndex)]_vars
\* ---------------------------------------------------------------------------
\* the subscribe calls whose listener is still registered
Regs(ls) == {ls[j].reg : j \in DOMAIN ls}

\* C18: invoking the handle returned by a subscribe call takes out the
\* registration made by that call and no other; every other registration,
\* one of the same callback included, stays, in the same order.
C18_RemovesOnlyItsOwn ==
    [][lastCall'.op = "unsubscribe" =>
          /\ Regs(listeners') = Regs(listeners) \ {lastCall'.ret}
          /\ listeners' = SelectSeq(listeners, LAMBDA l : l.reg # lastCall'.ret)
      ]_vars
\* ---------------------------------------------------------------------------
\* the methods that change a key
MarkOps == {"markAsActive", "markSuccess", "markExhaustedAndRotate", "markError"}

\* who was called by the last method, and who is subscribed, in order
DeliveredRegs == [j \in DOMAIN delivered |-> delivered[j].reg]
ListenerRegs  == [j \in DOMAIN listeners |-> listeners[j].reg]

\* C19 (as stated): each of markAsActive, markSuccess, markExhaustedAndRotate
\* and markError calls every subscribed listener exactly once before it
\* returns, in subscription order.
C19_Original ==
    lastCall.op \in MarkOps => DeliveredRegs = ListenerRegs

\* C19: markAsActive, markSuccess and markError call every registered
\* listener exactly once before they return, in subscription order, with the
\* keys as the method left them.  markExhaustedAndRotate does the same when it
\* returns false; when it returns true it makes two such rounds, the first
\* with the cursor still on the key it exhausted and the second with the
\* cursor on the new key.
C19_NotifiesInOrder ==
    /\ lastCall.op \in MarkOps =>
          \A j \in DOMAIN delivered : delivered[j].keys = keys
    /\ (\/ lastCall.op \in {"markAsActive", "markSuccess", "markError"}
        \/ lastCall = [op |-> "markExhaustedAndRotate", ret |-> FALSE]) =>
          /\ DeliveredRegs = ListenerRegs
          /\ \A j \in DOMAIN delivered : delivered[j].index = currentIndex
    /\ (lastCall.op = "markExhaustedAndRotate" /\ lastCall.ret = TRUE) =>
          /\ DeliveredRegs = ListenerRegs \o ListenerRegs
          /\ \A j \in DOMAIN listeners :
                /\ delivered[j].index # currentIndex
                /\ keys[delivered[j].index].status = "exhausted"
                /\ delivered[Len(listeners) + j].index = currentIndex

\* a rotation that found a key, with two different listeners registered
C19_Witness ==
    /\ lastCall = [op |-> "markExhaustedAndRotate", ret |-> TRUE]
    /\ Len(listeners) = 2
    /\ listeners[1].cb # listeners[2].cb
    /\ Len(delivered) = 4
\* ---------------------------------------------------------------------------
\* what a status display shows of a key
Shown(k) == <<k.status, k.requestCount, k.errorMessage>>

\* C20: whenever the status, requestCount or errorMessage of a key changes,
\* through a mark method or through the daily reset inside a read method,
\* every registered listener is called with the keys as they are after the
\* change.
C20_EveryChangeNotified ==
    [][(\E i \in DOMAIN keys : Shown(keys'[i]) # Shown(keys[i])) =>
          \A j \in DOMAIN listeners :
              \E k \in DOMAIN delivered' :
                  /\ delivered'[k].reg = listeners[j].reg
                  /\ delivered'[k].keys = keys'
      ]_vars
\* ---------------------------------------------------------------------------
\* the callers whose operation(genAI) is awaiting its result
InFlight == {c \in Callers : calls[c].pc = "await"}

\* C21: whatever the interleaving of calls to the public operations of one
\* service, at most one operation(genAI) is in flight on its pool at a time,
\* so no two operations in flight hold the same key.
C21_OneInFlight ==
    /\ Cardinality(InFlight) <= 1
    /\ \A c, d \in InFlight : c # d => calls[c].usedKey # calls[d].usedKey
\* ---------------------------------------------------------------------------
\* executeWithRetry is between its entry and its return or throw
Dispatching == pc \in {"loop", "await", "caught", "backoff"}

\* the results of the first k references, in list order
FirstItems(k) == [j \in 1..k |-> j - 1]

\* C22: analyzeReferences handles the references one at a time in list
\* order: while the dispatch for reference i runs, the results of exactly
\* the references before i have been pushed and one inter-item delay has
\* elapsed after each of them; a delay follows every successful reference
\* except the last, and none follows the last.
C22_OneAtATime ==
    /\ batch.results = FirstItems(Len(batch.results))
    /\ Dispatching =>
          /\ batch.pc = "item"
          /\ Len(batch.results) = batch.i
          /\ batch.delays = batch.i
    /\ batch.pc = "delay" =>
          /\ pc = "done" /\ outcome = "result"
          /\ Len(batch.results) = batch.i + 1
          /\ batch.delays = batch.i + 1
          /\ batch.i + 1 < batch.n
    /\ (batch.pc = "returned" /\ batch.n > 0) =>
          /\ Len(batch.results) = batch.n
          /\ batch.delays = batch.n - 1

\* the last of MaxItems references is being dispatched after a rotation
C22_Witness ==
    /\ batch.n = MaxItems
    /\ batch.i = MaxItems - 1
    /\ pc = "await"
    /\ batch.delays = MaxItems - 1
    /\ \E i \in DOMAIN keys : keys[i].status = "exhausted"
\* ---------------------------------------------------------------------------
\* the ways executeWithRetry throws
Failures == {"ExhaustedBeforeAttempt", "ExhaustedAfterRotate", "NotFound",
             "Propagated", "RetriesExceeded"}

\* C23: a call hands back a complete result or a failure, never a part:
\* executeWithRetry ends with the result of a resolved operation or with a
\* throw; analyzeReferences returns the results of all its references in list
\* order, or rejects; when the dispatch for reference i throws, no later
\* reference is dispatched and the results pushed before are not returned.
C23_NoPartialOutput ==
    /\ pc = "done" => outcome \in Failures \cup {"result"}
    /\ (pc = "done" /\ outcome = "result") => selStatus # "none"
    /\ batch.returned.kind = "combined" =>
          /\ batch.pc = "returned"
          /\ batch.returned.items = FirstItems(batch.n)
    /\ batch.pc = "returned" => batch.returned.kind = "combined"
    /\ batch.pc = "failed" =>
          /\ batch.returned = [kind |-> "failure", items |-> <<>>]
          /\ pc = "done" /\ outcome \in Failures
          /\ Len(batch.results) = batch.i
    /\ batch.pc \in {"item", "delay"} => batch.returned = NoReturn

\* the second or a later reference failed after earlier ones had succeeded
C23_Witness ==
    /\ batch.pc = "failed"
    /\ batch.i >= 1
    /\ batch.i < batch.n - 1
    /\ batch.results # <<>>
\* ---------------------------------------------------------------------------
\* C24: across sequential executeWithRetry calls, every key handed to the
\* operation was available just before markAsActive marked it: when
\* hasAvailableKey() passes, the key at the cursor is itself available, never
\* in error and never exhausted.
C24_SelectedWasAvailable ==
    selStatus \in {"none", "available"}
\* ---------------------------------------------------------------------------
\* C25: when the pool holds an available key with which the operation would
\* succeed, repeated executeWithRetry calls on the same day eventually return
\* a result, even though the key at the cursor keeps failing with a
\* not-found or other error that is not a rate limit.
C25_Progress ==
    (Cardinality(DOMAIN keys) >= 2) => <>(outcome = "result")
\* ---------------------------------------------------------------------------
\* the keys marked active
InUse == {i \in DOMAIN keys : keys[i].status = "active"}

\* C26: under sequential executeWithRetry calls at most one key is active
\* and it is the key at the cursor; when no call is running, before the
\* first call and after a return or a throw of any kind, no key is active.
C26_OneInUse ==
    /\ Cardinality(InUse) <= 1
    /\ InUse \subseteq {currentIndex}
    /\ pc \in {"idle", "done"} => InUse = {}
    /\ pc \in {"loop", "backoff"} => InUse = {}

\* an operation is in flight on a key that a rotation selected
C26_Witness ==
    /\ pc = "await"
    /\ InUse = {currentIndex}
    /\ currentIndex # 0
    /\ attempts > 0
\* ---------------------------------------------------------------------------
\* C27: markAsActive, markSuccess and markError change only the record of
\* the key at the cursor and leave the cursor where it is;
\* markExhaustedAndRotate changes no record but the one at the old cursor;
\* no mark method changes the value of a key or the order of the pool.
C27_MarkFrame ==
    [][/\ lastCall'.op \in {"markAsActive", "markSuccess", "markError"} =>
             /\ currentIndex' = currentIndex
             /\ \A i \in DOMAIN keys : i # currentIndex => keys'[i] = keys[i]
       /\ lastCall'.op = "markExhaustedAndRotate" =>
             \A i \in DOMAIN keys : i # currentIndex => keys'[i] = keys[i]
       /\ lastCall'.op \in MarkOps =>
             /\ DOMAIN keys' = DOMAIN keys
             /\ \A i \in DOMAIN keys : keys'[i].key = keys[i].key
      ]_vars

\* markError on the middle key of a full pool left its neighbours as they were
C27_Witness ==
    /\ lastCall.op = "markError"
    /\ Cardinality(DOMAIN keys) = MaxKeys
    /\ currentIndex = 1
    /\ keys[1].status = "error"
    /\ keys[0].status = "exhausted"
    /\ keys[2].status = "available"
\* ---------------------------------------------------------------------------
\* the step is one listener call of a running notify()
ListenerCalled == bcast.running /\ Len(delivered') = Len(delivered) + 1

\* C28: a listener whose handle has been invoked is never called again, also
\* when the handle was invoked by a listener called earlier in the same
\* notify(); a listener subscribed during a notify() is not called by it.
C28_NoCallAfterUnsubscribe ==
    [][ListenerCalled =>
          /\ bcast.array[bcast.pos].reg \notin bcast.revoked
          /\ bcast.array[bcast.pos].reg \notin bcast.late]_vars
\* ---------------------------------------------------------------------------
\* caller c leaves its await in this step: its operation resolved or rejected
Settles(c) == calls[c].pc = "await" /\ calls'[c].pc # "await"

\* C29: when calls overlap, the outcome of a call is applied to the key that
\* call used: a success counts one more request on that key, a failure
\* leaves that key exhausted or in error, wherever the cursor is by then.
C29_OutcomeOnUsedKey ==
    [][\A c \in Callers :
          Settles(c) =>
              LET k == KeyIndex(keys, calls[c].usedKey)
              IN  IF calls'[c].outcome = "result"
                  THEN keys'[k].requestCount = keys[k].requestCount + 1
                  ELSE keys'[k].status \in {"exhausted", "error"}]_vars
\* ---------------------------------------------------------------------------
\* the scan counter markExhaustedAndRotate() would end with if called now
ScanLength ==
    RotateSteps(markExhaustedAndRotate(keys, currentIndex).keys, currentIndex, 0)

\* C30: when every operation and every delay settles, a call that is under
\* way ends; it has no outcome until it ends and then it has exactly one of
\* result, all keys exhausted, not found, the original error, or too many
\* retries; the scan of markExhaustedAndRotate ends within one pass of the
\* pool.
C30_Termination ==
    /\ Dispatching ~> (pc = "done")
    /\ [](IF pc = "done" THEN outcome \in Failures \cup {"result"}
                         ELSE outcome = "none")
    /\ [](ScanLength <= Cardinality(DOMAIN keys))

\* a call gave up after its last permitted rotation, on a pool whose scan
\* runs the full pass
C30_Witness ==
    /\ pc = "done"
    /\ outcome = "RetriesExceeded"
    /\ attempts = maxRetries
    /\ ScanLength = Cardinality(DOMAIN keys)
====
